---- MODULE Spec2Model ----
(***************************************************************************)
(* Model of install/autodetect.go of cilium-cli: the installer's           *)
(* autodetectAndValidate (flavor detection, validation checks, cluster     *)
(* name adoption, datapath mode resolution, cluster name and encryption    *)
(* gate) and the helpers it calls.                                         *)
(*                                                                         *)
(* Strings that the code inspects character by character (cluster names)   *)
(* are sequences of one-character strings.  All other strings (modes,      *)
(* check names, kinds) are only compared for equality and are TLA+         *)
(* strings.  The empty Go string "" is <<>> for cluster names and "" for   *)
(* the others.                                                             *)
(***************************************************************************)
EXTENDS Integers, Sequences, FiniteSets, TLC

VARIABLES
    pc,                 \* position inside autodetectAndValidate
    flavor,             \* k.flavor
    detected,           \* what k.client.AutodetectFlavor will return
    params,             \* k.params
    validationChecks,   \* the package-level registry
    checkResult,        \* what each check's Check() returns in this run
    byocniResult,       \* what the Azure BYOCNI lookup returns in this run
    idx,                \* position of the range loop over the checks
    err,                \* the error autodetectAndValidate returned
    invoked,            \* history: checks on which Check() was invoked, in order
    lookups,            \* history: number of calls of azureAutodetect
    entry,              \* history: k.params when autodetectAndValidate was entered
    stages,             \* history: stages of autodetectAndValidate that have run
    hinted,             \* history: check names logged with the --disable-check hint
    second,             \* a further call of detectDatapathMode and its result
    uninstaller         \* the K8sUninstaller: its flavor, whether autodetect ran

vars == <<pc, flavor, detected, params, validationChecks, checkResult,
          byocniResult, idx, err, invoked, lookups, entry, stages, hinted,
          second, uninstaller>>

----------------------------------------------------------------------------
(* Bounds *)

\* longest cluster name drawn as an input
MaxLen == 3

----------------------------------------------------------------------------
(* Characters and cluster names *)

Lower == {"a"}
Digit == {"0"}
\* one representative of every character class the code distinguishes
Chars == Lower \cup Digit \cup {"-", "_", ".", "A"}

Names == UNION {[1..n -> Chars] : n \in 0..MaxLen}

\* the class [a-z0-9] of the regular expression
AlNum == Lower \cup Digit
\* the class [-a-z0-9] of the regular expression
HyAlNum == AlNum \cup {"-"}

\* the pattern with the empty name let through
clusterNameValidation_EmptyOK(s) ==
    \/ Len(s) = 0
    \/ /\ Len(s) >= 2
       /\ s[1] \in AlNum
       /\ s[Len(s)] \in AlNum
       /\ \A i \in 2..(Len(s) - 1) : s[i] \in HyAlNum

\* the pattern with the last character taken from [-a-z0-9]
clusterNameValidation_TrailingHyphen(s) ==
    /\ Len(s) >= 2
    /\ s[1] \in AlNum
    /\ \A i \in 2..Len(s) : s[i] \in HyAlNum

\* clusterNameValidation.MatchString(s) for ^[a-z0-9]([-a-z0-9]*[a-z0-9])$ :
\* one [a-z0-9], then the group: n characters of [-a-z0-9] and one
\* [a-z0-9], then the end of the text.
clusterNameValidation(s) ==
    /\ Len(s) >= 1
    /\ s[1] \in AlNum
    /\ \E n \in 0..Len(s) :
          /\ n + 2 = Len(s)
          /\ \A i \in 2..(n + 1) : s[i] \in HyAlNum
          /\ s[n + 2] \in AlNum

\* a replacement of the first underscore only
ReplaceAll_FirstOnly(s) ==
    [i \in 1..Len(s) |->
        IF s[i] = "_" /\ \A j \in 1..(i - 1) : s[j] # "_" THEN "-" ELSE s[i]]

\* strings.ReplaceAll(s, "_", "-")
ReplaceAll(s) == [i \in 1..Len(s) |-> IF s[i] = "_" THEN "-" ELSE s[i]]

\* a dot test that looks at the first character only
ContainsDot_FirstOnly(s) == Len(s) >= 1 /\ s[1] = "."

\* strings.Contains(s, ".")
ContainsDot(s) == \E i \in 1..Len(s) : s[i] = "."

----------------------------------------------------------------------------
(* Kinds, datapath modes, encryption modes *)

KindUnknown  == "unknown"
KindMinikube == "minikube"
KindKind     == "kind"
KindEKS      == "EKS"
KindGKE      == "GKE"
KindAKS      == "AKS"
\* a kind that neither the registry nor the switch names
KindOther    == "microk8s"

Kinds == {KindUnknown, KindMinikube, KindKind, KindEKS, KindGKE, KindAKS, KindOther}

DatapathTunnel    == "tunnel"
DatapathAwsENI    == "aws-eni"
DatapathGKE       == "gke"
DatapathAzure     == "azure"
DatapathAKSBYOCNI == "aks-byocni"

encryptionDisabled  == "disabled"
encryptionIPsec     == "ipsec"
encryptionWireguard == "wireguard"

----------------------------------------------------------------------------
(* Validation checks *)

minikubeVersionValidation == "minikubeVersionValidation"
kindVersionValidation     == "kindVersionValidation"
azureVersionValidation    == "azureVersionValidation"
\* a further check a package may append to a flavor's list
stubValidation            == "stubValidation"

Checks == {minikubeVersionValidation, kindVersionValidation,
           azureVersionValidation, stubValidation}

\* check.Name(): stable and unique per check
Name(check) == check

\* the map literal of the source; a missing key reads as the empty list
SourceRegistry ==
    [kd \in Kinds |->
        CASE kd = KindMinikube -> <<minikubeVersionValidation>>
          [] kd = KindKind     -> <<kindVersionValidation>>
          [] kd = KindAKS      -> <<azureVersionValidation>>
          [] OTHER             -> <<>>]

\* the registry after a second check was appended to two of its lists
ExtendedRegistry ==
    [kd \in Kinds |->
        IF kd \in {KindKind, KindAKS}
        THEN Append(SourceRegistry[kd], stubValidation)
        ELSE SourceRegistry[kd]]

Registries == {SourceRegistry, ExtendedRegistry}

\* Check() returns nil, an error of its own, or the context's error
CheckOutcomes == {"ok", "fail", "canceled"}

\* azureAutodetect finds BYOCNI, finds no BYOCNI, fails, or is cancelled
LookupOutcomes == {"byocni", "azure", "fail", "canceled"}

----------------------------------------------------------------------------
(* Errors *)

\* nil
NoError == [msg |-> "", kind |-> "", cause |-> ""]

\* the error a failing Check() returns
CheckError(outcome) ==
    [msg |-> IF outcome = "canceled" THEN "context canceled" ELSE "check failed",
     kind |-> "", cause |-> ""]

\* the error a failing azureAutodetect returns
LookupError(outcome) ==
    [msg |-> IF outcome = "canceled" THEN "context canceled" ELSE "lookup failed",
     kind |-> "", cause |-> ""]

\* a wrapped error that leaves the kind out
ValidationError_NoKind(kd, e) ==
    [msg |-> "validation check failed", kind |-> "", cause |-> e.msg]

\* fmt.Errorf("validation check for kind %q failed: %w", k.flavor.Kind, err)
ValidationError(kd, e) ==
    [msg |-> "validation check failed", kind |-> kd, cause |-> e.msg]

ErrDots       == [msg |-> "invalid cluster name, dots are not allowed", kind |-> "", cause |-> ""]
ErrName       == [msg |-> "invalid cluster name", kind |-> "", cause |-> ""]
ErrEncryption == [msg |-> "invalid encryption mode", kind |-> "", cause |-> ""]

----------------------------------------------------------------------------
(* Helpers of the installer *)

\* a disable test that any entry of DisableChecks satisfies
checkDisabled_AnyEntry(p, name) == Len(p.DisableChecks) > 0

\* Parameters.checkDisabled
checkDisabled(p, name) ==
    \E i \in 1..Len(p.DisableChecks) : p.DisableChecks[i] = name

\* k.azureAutodetect: the lookup stores its answer in params.Azure.IsBYOCNI
azureAutodetect(p, outcome) ==
    IF outcome \in {"fail", "canceled"}
    THEN [params |-> p, err |-> LookupError(outcome)]
    ELSE [params |-> [p EXCEPT !.IsBYOCNI = (outcome = "byocni")], err |-> NoError]

\* defaulting that ignores the user's value
DefaultKPR_Overwrite(p, withKPR) ==
    IF withKPR THEN [p EXCEPT !.KubeProxyReplacement = "disabled"] ELSE p

\* defaulting that never happens
DefaultKPR_Never(p, withKPR) == p

\* the two places that default kube-proxy-replacement
DefaultKPR(p, withKPR) ==
    IF withKPR /\ p.KubeProxyReplacement = ""
    THEN [p EXCEPT !.KubeProxyReplacement = "disabled"]
    ELSE p

\* the AKS case with the two modes exchanged
detectAKS_Swapped(p, outcome, withKPR) ==
    LET az == azureAutodetect(p, outcome) IN
    IF az.err # NoError
    THEN [params |-> az.params, err |-> az.err, lookups |-> 1]
    ELSE LET q == [az.params EXCEPT !.DatapathMode =
                      IF az.params.IsBYOCNI THEN DatapathAzure ELSE DatapathAKSBYOCNI]
         IN  [params |-> DefaultKPR(q, withKPR), err |-> NoError, lookups |-> 1]

\* the AKS case that drops the lookup's error
detectAKS_IgnoreError(p, outcome, withKPR) ==
    LET az == azureAutodetect(p, outcome)
        q == [az.params EXCEPT !.DatapathMode =
                 IF az.params.IsBYOCNI THEN DatapathAKSBYOCNI ELSE DatapathAzure]
    IN  [params |-> DefaultKPR(q, withKPR), err |-> NoError, lookups |-> 1]

\* the AKS case of the switch
detectAKS(p, outcome, withKPR) ==
    LET az == azureAutodetect(p, outcome) IN
    IF az.err # NoError
    THEN [params |-> az.params, err |-> az.err, lookups |-> 1]
    ELSE LET q == [az.params EXCEPT !.DatapathMode =
                      IF az.params.IsBYOCNI THEN DatapathAKSBYOCNI ELSE DatapathAzure]
         IN  [params |-> DefaultKPR(q, withKPR), err |-> NoError, lookups |-> 1]

\* resolution without the early return for a DatapathMode that is set
detectDatapathMode_NoEarlyReturn(p, kd, outcome, withKPR) ==
    CASE kd = KindKind ->
            [params |-> DefaultKPR([p EXCEPT !.DatapathMode = DatapathTunnel], withKPR),
             err |-> NoError, lookups |-> 0]
      [] kd = KindEKS ->
            [params |-> [p EXCEPT !.DatapathMode = DatapathAwsENI],
             err |-> NoError, lookups |-> 0]
      [] kd = KindGKE ->
            [params |-> [p EXCEPT !.DatapathMode = DatapathGKE],
             err |-> NoError, lookups |-> 0]
      [] kd = KindAKS -> detectAKS(p, outcome, withKPR)
      [] OTHER ->
            [params |-> [p EXCEPT !.DatapathMode = DatapathTunnel],
             err |-> NoError, lookups |-> 0]

\* K8sInstaller.detectDatapathMode
detectDatapathMode(p, kd, outcome, withKPR) ==
    IF p.DatapathMode # ""
    THEN [params |-> p, err |-> NoError, lookups |-> 0]
    ELSE CASE kd = KindKind ->
                [params |-> DefaultKPR([p EXCEPT !.DatapathMode = DatapathTunnel], withKPR),
                 err |-> NoError, lookups |-> 0]
           [] kd = KindMinikube ->
                [params |-> [p EXCEPT !.DatapathMode = DatapathTunnel],
                 err |-> NoError, lookups |-> 0]
           [] kd = KindEKS ->
                [params |-> [p EXCEPT !.DatapathMode = DatapathAwsENI],
                 err |-> NoError, lookups |-> 0]
           [] kd = KindGKE ->
                [params |-> [p EXCEPT !.DatapathMode = DatapathGKE],
                 err |-> NoError, lookups |-> 0]
           [] kd = KindAKS -> detectAKS(p, outcome, withKPR)
           [] OTHER ->
                [params |-> [p EXCEPT !.DatapathMode = DatapathTunnel],
                 err |-> NoError, lookups |-> 0]

\* the stage log: a stage is entered once, the check loop once per check
Stage(s, name) == IF s # <<>> /\ s[Len(s)] = name THEN s ELSE Append(s, name)

----------------------------------------------------------------------------
(* Initial states: the installer before autodetectAndValidate is called *)

\* values of the --datapath-mode flag; "vxlan" is one the detection never picks
UserDatapathModes == {"", "vxlan"}
\* values of the --kube-proxy-replacement flag
UserKPR == {"", "strict"}
\* values of the --encryption flag
UserEncryption == {encryptionDisabled, encryptionIPsec, encryptionWireguard,
                   "", "IPsec", "aes"}
\* values of the repeatable --disable-check flag
UserDisableChecks ==
    {<<>>, <<"no-such-check">>,
     <<minikubeVersionValidation>>,
     <<"no-such-check", kindVersionValidation>>,
     <<azureVersionValidation, "no-such-check">>,
     <<stubValidation>>}

\* a few cluster names: unset, valid, dotted and otherwise invalid, invalid
SampleUserNames == {<<>>, <<"a", "-", "0">>, <<"A", ".">>, <<"-", "a">>}
SampleFlavorNames == {<<>>, <<"a", "_", "a">>}

InitWith(kd, reg, res, dis, byo, dm, kpr, enc, uname, fname) ==
    /\ pc = "start"
    /\ flavor = [Kind |-> KindUnknown, ClusterName |-> <<>>]
    /\ detected = [Kind |-> kd, ClusterName |-> fname]
    /\ params = [DisableChecks |-> dis, DatapathMode |-> dm,
                 KubeProxyReplacement |-> kpr, ClusterName |-> uname,
                 Encryption |-> enc, IPAM |-> "", IsBYOCNI |-> FALSE]
    /\ validationChecks = reg
    /\ checkResult = res
    /\ byocniResult = byo
    /\ idx = 0
    /\ err = NoError
    /\ invoked = <<>>
    /\ lookups = 0
    /\ entry = params
    /\ stages = <<>>
    /\ hinted = <<>>
    /\ second = [called |-> FALSE, err |-> NoError]
    /\ uninstaller = [flavor |-> [Kind |-> KindUnknown, ClusterName |-> <<>>],
                      called |-> FALSE]

\* results of the checks: only the checks of the detected kind are ever asked
ResultsFor(kd, reg) ==
    {res \in [Checks -> CheckOutcomes] :
        \A c \in Checks :
            (\A i \in 1..Len(reg[kd]) : reg[kd][i] # c) => res[c] = "ok"}

\* results of the lookup: only an AKS run asks
LookupsFor(kd) == IF kd = KindAKS THEN LookupOutcomes ELSE {"azure"}

AllOk == [c \in Checks |-> "ok"]

\* every flavor, registry, check result, disable list and override, with a
\* few cluster names and encryption modes
InitFlavors ==
    \E kd \in Kinds, reg \in Registries, dis \in UserDisableChecks,
       dm \in UserDatapathModes, kpr \in UserKPR,
       enc \in {encryptionDisabled, "aes"},
       uname \in SampleUserNames, fname \in SampleFlavorNames :
        \E res \in ResultsFor(kd, reg), byo \in LookupsFor(kd) :
            InitWith(kd, reg, res, dis, byo, dm, kpr, enc, uname, fname)

\* every cluster name up to MaxLen, given by the user or by the detector
InitNames ==
    \E kd \in Kinds, name \in Names, byUser \in BOOLEAN,
       enc \in {encryptionDisabled, "aes"} :
        InitWith(kd, SourceRegistry, AllOk, <<>>, "byocni", "", "", enc,
                 IF byUser THEN name ELSE <<>>,
                 IF byUser THEN <<"a", "_", "a">> ELSE name)

\* every encryption mode
InitEncryption ==
    \E kd \in Kinds, enc \in UserEncryption, uname \in SampleUserNames,
       dm \in UserDatapathModes :
        InitWith(kd, SourceRegistry, AllOk, <<>>, "azure", dm, "", enc,
                 uname, <<"a", "_", "a">>)

Init == InitFlavors \/ InitNames \/ InitEncryption

----------------------------------------------------------------------------
(* autodetectAndValidate, one action per stage *)

\* k.autodetect(ctx)
Autodetect ==
    /\ pc = "start"
    /\ flavor' = detected
    /\ idx' = 1
    /\ pc' = "checks"
    /\ stages' = Stage(stages, "detect")
    /\ UNCHANGED <<detected, params, validationChecks, checkResult,
                   byocniResult, err, invoked, lookups, entry, second, uninstaller, hinted>>

\* a lookup that falls back to the minikube list for a kind without checks
CurrentChecks_Fallback ==
    IF validationChecks[flavor.Kind] = <<>> /\ pc # "start"
    THEN validationChecks[KindMinikube]
    ELSE validationChecks[flavor.Kind]

\* validationChecks[k.flavor.Kind]
CurrentChecks == validationChecks[flavor.Kind]

\* one iteration of the range loop: the check is disabled
SkipCheck ==
    /\ pc = "checks"
    /\ idx <= Len(CurrentChecks)
    /\ checkDisabled(params, Name(CurrentChecks[idx]))
    /\ idx' = idx + 1
    /\ stages' = Stage(stages, "checks")
    /\ UNCHANGED <<pc, flavor, detected, params, validationChecks, checkResult,
                   byocniResult, err, invoked, lookups, entry, second, uninstaller, hinted>>

\* an iteration that records the failure and goes on with the next check
RunCheck_NoStop ==
    /\ pc = "checks"
    /\ idx <= Len(CurrentChecks)
    /\ ~checkDisabled(params, Name(CurrentChecks[idx]))
    /\ invoked' = Append(invoked, CurrentChecks[idx])
    /\ stages' = Stage(stages, "checks")
    /\ hinted' = IF checkResult[CurrentChecks[idx]] # "ok"
                 THEN Append(hinted, Name(CurrentChecks[idx]))
                 ELSE hinted
    /\ IF checkResult[CurrentChecks[idx]] # "ok"
       THEN /\ err' = ValidationError(flavor.Kind,
                                      CheckError(checkResult[CurrentChecks[idx]]))
            /\ pc' = IF idx = Len(CurrentChecks) THEN "done" ELSE pc
            /\ idx' = idx + 1
       ELSE /\ idx' = idx + 1
            /\ UNCHANGED <<pc, err>>
    /\ UNCHANGED <<flavor, detected, params, validationChecks, checkResult,
                   byocniResult, lookups, entry, second, uninstaller>>

\* an iteration that logs the failure of a check and does not return it
RunCheck_IgnoreError ==
    /\ pc = "checks"
    /\ idx <= Len(CurrentChecks)
    /\ ~checkDisabled(params, Name(CurrentChecks[idx]))
    /\ invoked' = Append(invoked, CurrentChecks[idx])
    /\ stages' = Stage(stages, "checks")
    /\ hinted' = IF checkResult[CurrentChecks[idx]] # "ok"
                 THEN Append(hinted, Name(CurrentChecks[idx]))
                 ELSE hinted
    /\ idx' = idx + 1
    /\ UNCHANGED <<pc, err, flavor, detected, params, validationChecks, checkResult,
                   byocniResult, lookups, entry, second, uninstaller>>

\* one iteration of the range loop: the check runs
RunCheck ==
    /\ pc = "checks"
    /\ idx <= Len(CurrentChecks)
    /\ ~checkDisabled(params, Name(CurrentChecks[idx]))
    /\ invoked' = Append(invoked, CurrentChecks[idx])
    /\ stages' = Stage(stages, "checks")
    /\ hinted' = IF checkResult[CurrentChecks[idx]] # "ok"
                 THEN Append(hinted, Name(CurrentChecks[idx]))
                 ELSE hinted
    /\ IF checkResult[CurrentChecks[idx]] # "ok"
       THEN /\ err' = ValidationError(flavor.Kind,
                                      CheckError(checkResult[CurrentChecks[idx]]))
            /\ pc' = "done"
            /\ idx' = idx
       ELSE /\ idx' = idx + 1
            /\ UNCHANGED <<pc, err>>
    /\ UNCHANGED <<flavor, detected, params, validationChecks, checkResult,
                   byocniResult, lookups, entry, second, uninstaller>>

\* the loop is over: adopt the detector's cluster name
AdoptClusterName ==
    /\ pc = "checks"
    /\ idx > Len(CurrentChecks)
    /\ params' = IF params.ClusterName = <<>> /\ flavor.ClusterName # <<>>
                 THEN [params EXCEPT !.ClusterName = ReplaceAll(flavor.ClusterName)]
                 ELSE params
    /\ pc' = "datapath"
    /\ stages' = Stage(stages, "adopt")
    /\ UNCHANGED <<flavor, detected, validationChecks, checkResult,
                   byocniResult, idx, err, invoked, lookups, entry, second, uninstaller, hinted>>

\* k.detectDatapathMode(ctx, true)
DetectDatapathMode ==
    /\ pc = "datapath"
    /\ LET r == detectDatapathMode(params, flavor.Kind, byocniResult, TRUE) IN
        /\ params' = r.params
        /\ lookups' = lookups + r.lookups
        /\ err' = r.err
        /\ pc' = IF r.err # NoError THEN "done" ELSE "dot"
    /\ stages' = Stage(stages, "datapath")
    /\ UNCHANGED <<flavor, detected, validationChecks, checkResult,
                   byocniResult, idx, invoked, entry, second, uninstaller, hinted>>

\* a dot check that reports the error and goes on to the pattern check
DotCheck_Continue ==
    /\ pc = "dot"
    /\ IF ContainsDot(params.ClusterName)
       THEN err' = ErrDots
       ELSE UNCHANGED err
    /\ pc' = "pattern"
    /\ stages' = Stage(stages, "dot")
    /\ UNCHANGED <<flavor, detected, params, validationChecks, checkResult,
                   byocniResult, idx, invoked, lookups, entry, second, uninstaller, hinted>>

\* strings.Contains(k.params.ClusterName, ".")
DotCheck ==
    /\ pc = "dot"
    /\ IF ContainsDot(params.ClusterName)
       THEN err' = ErrDots /\ pc' = "done"
       ELSE pc' = "pattern" /\ UNCHANGED err
    /\ stages' = Stage(stages, "dot")
    /\ UNCHANGED <<flavor, detected, params, validationChecks, checkResult,
                   byocniResult, idx, invoked, lookups, entry, second, uninstaller, hinted>>

\* !clusterNameValidation.MatchString(k.params.ClusterName)
PatternCheck ==
    /\ pc = "pattern"
    /\ IF ~clusterNameValidation(params.ClusterName)
       THEN err' = ErrName /\ pc' = "done"
       ELSE pc' = "encryption" /\ UNCHANGED err
    /\ stages' = Stage(stages, "pattern")
    /\ UNCHANGED <<flavor, detected, params, validationChecks, checkResult,
                   byocniResult, idx, invoked, lookups, entry, second, uninstaller, hinted>>

\* an encryption check that also takes the mixed-case spelling of IPsec
EncryptionCheck_MixedCase ==
    /\ pc = "encryption"
    /\ IF params.Encryption \in {encryptionDisabled, encryptionIPsec,
                                 encryptionWireguard, "IPsec"}
       THEN UNCHANGED err
       ELSE err' = ErrEncryption
    /\ pc' = "done"
    /\ stages' = Stage(stages, "encryption")
    /\ UNCHANGED <<flavor, detected, params, validationChecks, checkResult,
                   byocniResult, idx, invoked, lookups, entry, second, uninstaller, hinted>>

\* switch k.params.Encryption
EncryptionCheck ==
    /\ pc = "encryption"
    /\ IF params.Encryption \in {encryptionDisabled, encryptionIPsec, encryptionWireguard}
       THEN UNCHANGED err
       ELSE err' = ErrEncryption
    /\ pc' = "done"
    /\ stages' = Stage(stages, "encryption")
    /\ UNCHANGED <<flavor, detected, params, validationChecks, checkResult,
                   byocniResult, idx, invoked, lookups, entry, second, uninstaller, hinted>>

\* a further k.detectDatapathMode(ctx, withKPR) on the same installer, after
\* the call made by autodetectAndValidate returned nil
DetectDatapathModeAgain ==
    /\ pc = "done"
    /\ \E i \in 1..Len(stages) : stages[i] = "dot"
    /\ ~second.called
    /\ \E withKPR \in BOOLEAN, outcome \in LookupOutcomes :
        LET r == detectDatapathMode(params, flavor.Kind, outcome, withKPR) IN
            /\ params' = r.params
            /\ lookups' = lookups + r.lookups
            /\ second' = [called |-> TRUE, err |-> r.err]
    /\ UNCHANGED <<pc, flavor, detected, validationChecks, checkResult,
                   byocniResult, idx, err, invoked, entry, stages, hinted,
                   uninstaller>>

\* an uninstaller autodetect that also runs the installer's checks and lookup
UninstallAutodetect_Validating ==
    /\ ~uninstaller.called
    /\ uninstaller' = [flavor |-> detected, called |-> TRUE]
    /\ invoked' = invoked \o validationChecks[detected.Kind]
    /\ lookups' = IF detected.Kind = KindAKS THEN lookups + 1 ELSE lookups
    /\ UNCHANGED <<pc, flavor, detected, params, validationChecks, checkResult,
                   byocniResult, idx, err, entry, stages, hinted, second>>

\* K8sUninstaller.autodetect
UninstallAutodetect ==
    /\ ~uninstaller.called
    /\ uninstaller' = [flavor |-> detected, called |-> TRUE]
    /\ UNCHANGED <<pc, flavor, detected, params, validationChecks, checkResult,
                   byocniResult, idx, err, invoked, lookups, entry, stages,
                   hinted, second>>

Next ==
    \/ Autodetect
    \/ SkipCheck
    \/ RunCheck
    \/ AdoptClusterName
    \/ DetectDatapathMode
    \/ DotCheck
    \/ PatternCheck
    \/ EncryptionCheck
    \/ DetectDatapathModeAgain
    \/ UninstallAutodetect

Spec == Init /\ [][Next]_vars

----------------------------------------------------------------------------
(* Shorthands for the claims *)

Returned == pc = "done"
Succeeded == pc = "done" /\ err = NoError
Failed == pc = "done" /\ err # NoError


\* the names listed in DisableChecks
DisabledNames == {params.DisableChecks[i] : i \in 1..Len(params.DisableChecks)}

\* datapath resolution has returned without an error
PastDatapath ==
    \/ pc \in {"dot", "pattern", "encryption"}
    \/ pc = "done" /\ \E i \in 1..Len(stages) : stages[i] = "dot"

LastStage == IF stages = <<>> THEN "" ELSE stages[Len(stages)]

IsValidationError == err.msg = "validation check failed"

----------------------------------------------------------------------------
(* C1 *)

\* C1: a DatapathMode, KubeProxyReplacement or ClusterName that is non-empty
\* when autodetectAndValidate is entered has the same value when it returns,
\* with or without an error, for every kind, lookup outcome and check outcome.
C1_UserPrecedence ==
    Returned =>
        /\ entry.DatapathMode # "" => params.DatapathMode = entry.DatapathMode
        /\ entry.KubeProxyReplacement # "" =>
               params.KubeProxyReplacement = entry.KubeProxyReplacement
        /\ entry.ClusterName # <<>> => params.ClusterName = entry.ClusterName

\* a kind whose resolution defaults kube-proxy-replacement returned with the
\* user's kube-proxy-replacement and cluster name while the detector had a name
C1_Witness ==
    /\ Returned
    /\ flavor.Kind = KindKind
    /\ entry.DatapathMode = ""
    /\ params.DatapathMode = DatapathTunnel
    /\ entry.KubeProxyReplacement = "strict"
    /\ entry.ClusterName # <<>>
    /\ flavor.ClusterName # <<>>

----------------------------------------------------------------------------
(* C2 *)

\* the rule table of the datapath mode resolver
C2_Table(kd, lookup) ==
    CASE kd = KindKind     -> DatapathTunnel
      [] kd = KindMinikube -> DatapathTunnel
      [] kd = KindEKS      -> DatapathAwsENI
      [] kd = KindGKE      -> DatapathGKE
      [] kd = KindAKS      -> IF lookup = "byocni" THEN DatapathAKSBYOCNI ELSE DatapathAzure
      [] OTHER             -> DatapathTunnel

\* C2: when DatapathMode is unset on entry and the BYOCNI lookup (if any)
\* succeeds, DatapathMode is the rule table's mode for the detected kind:
\* tunnel for kind and minikube, AWS ENI for EKS, GKE for GKE, AKS BYOCNI or
\* Azure for AKS by the lookup's answer, tunnel for every other kind.
C2_DatapathTable ==
    (entry.DatapathMode = "" /\ PastDatapath) =>
        params.DatapathMode = C2_Table(flavor.Kind, byocniResult)

\* an AKS run whose lookup reported BYOCNI got past datapath resolution
C2_Witness ==
    /\ PastDatapath
    /\ entry.DatapathMode = ""
    /\ flavor.Kind = KindAKS
    /\ byocniResult = "byocni"
    /\ lookups = 1

----------------------------------------------------------------------------
(* C3 *)

\* C3: when DatapathMode and KubeProxyReplacement are both unset on entry and
\* datapath resolution succeeded, KubeProxyReplacement is "disabled" for the
\* kinds kind and AKS and still unset for every other kind.
C3_KPRDefault ==
    (entry.DatapathMode = "" /\ entry.KubeProxyReplacement = "" /\ PastDatapath) =>
        params.KubeProxyReplacement =
            IF flavor.Kind \in {KindKind, KindAKS} THEN "disabled" ELSE ""

\* a kind run without overrides got past datapath resolution
C3_Witness ==
    /\ PastDatapath
    /\ flavor.Kind = KindKind
    /\ entry.DatapathMode = ""
    /\ entry.KubeProxyReplacement = ""
    /\ params.KubeProxyReplacement = "disabled"

----------------------------------------------------------------------------
(* C4 *)

\* the checks of the detected flavor that DisableChecks does not name
C4_Enabled ==
    SelectSeq(validationChecks[flavor.Kind], LAMBDA c : Name(c) \notin DisabledNames)

\* C4: checks are invoked in registration order; once a non-disabled check
\* returned an error no later check of the list is invoked and
\* autodetectAndValidate returns an error.
C4_ShortCircuit ==
    /\ Len(invoked) <= Len(C4_Enabled)
    /\ invoked = SubSeq(C4_Enabled, 1, Len(invoked))
    /\ \A i \in 1..(Len(invoked) - 1) : checkResult[invoked[i]] = "ok"
    /\ (\E i \in 1..Len(invoked) : checkResult[invoked[i]] # "ok") =>
           Failed /\ IsValidationError

\* a flavor with two enabled checks whose first check failed has returned
C4_Witness ==
    /\ Returned
    /\ Len(C4_Enabled) = 2
    /\ checkResult[C4_Enabled[1]] = "fail"
    /\ invoked = <<C4_Enabled[1]>>
    /\ IsValidationError

----------------------------------------------------------------------------
(* C5 *)

\* the names of DisableChecks that name a check of the detected flavor
C5_Matching ==
    DisabledNames \cap
        {Name(validationChecks[flavor.Kind][i]) : i \in 1..Len(validationChecks[flavor.Kind])}

\* the checks of the detected flavor left after removing the matching names
C5_Left ==
    SelectSeq(validationChecks[flavor.Kind], LAMBDA c : Name(c) \notin C5_Matching)

\* the first check among those left that returns an error, 0 if none does
C5_FirstFailing ==
    IF \E i \in 1..Len(C5_Left) : checkResult[C5_Left[i]] # "ok"
    THEN CHOOSE i \in 1..Len(C5_Left) :
            /\ checkResult[C5_Left[i]] # "ok"
            /\ \A j \in 1..(i - 1) : checkResult[C5_Left[j]] = "ok"
    ELSE 0

\* C5: a check whose Name() equals an entry of DisableChecks is never
\* invoked and its failure does not fail the call; entries that match no
\* check of the detected flavor change neither the checks invoked nor the
\* outcome: both are decided by the matching entries alone.
C5_DisableByName ==
    /\ \A i \in 1..Len(invoked) : Name(invoked[i]) \notin DisabledNames
    /\ (pc \notin {"start", "checks"}) =>
           /\ invoked = IF C5_FirstFailing = 0 THEN C5_Left
                        ELSE SubSeq(C5_Left, 1, C5_FirstFailing)
           /\ IsValidationError <=> C5_FirstFailing # 0

\* a run with a matching and a non-matching entry: the disabled check would
\* have failed, the other check of the flavor ran, the check stage passed
C5_Witness ==
    /\ Returned
    /\ flavor.Kind = KindKind
    /\ params.DisableChecks = <<"no-such-check", kindVersionValidation>>
    /\ checkResult[kindVersionValidation] = "fail"
    /\ invoked = <<stubValidation>>
    /\ ~IsValidationError

----------------------------------------------------------------------------
(* C6 *)

\* the stages in the order the claim gives; the check stage is absent for a
\* flavor without checks
C6_Order ==
    IF validationChecks[flavor.Kind] = <<>>
    THEN <<"detect", "adopt", "datapath", "dot", "pattern", "encryption">>
    ELSE <<"detect", "checks", "adopt", "datapath", "dot", "pattern", "encryption">>

\* the cluster name the gate sees
C6_FinalName ==
    IF entry.ClusterName # <<>> THEN entry.ClusterName
    ELSE ReplaceAll(detected.ClusterName)

\* the positions of the enabled failing checks of the detected kind
C6_FailingChecks ==
    {i \in 1..Len(validationChecks[detected.Kind]) :
        /\ Name(validationChecks[detected.Kind][i]) \notin DisabledNames
        /\ checkResult[validationChecks[detected.Kind][i]] # "ok"}

C6_FirstFailingCheck ==
    validationChecks[detected.Kind]
        [CHOOSE i \in C6_FailingChecks : \A j \in C6_FailingChecks : i <= j]

\* the error of the earliest failing stage, nil if no stage fails
C6_Expected ==
    IF C6_FailingChecks # {}
    THEN ValidationError(detected.Kind, CheckError(checkResult[C6_FirstFailingCheck]))
    ELSE IF /\ entry.DatapathMode = ""
            /\ detected.Kind = KindAKS
            /\ byocniResult \in {"fail", "canceled"}
    THEN LookupError(byocniResult)
    ELSE IF ContainsDot(C6_FinalName) THEN ErrDots
    ELSE IF ~clusterNameValidation(C6_FinalName) THEN ErrName
    ELSE IF entry.Encryption \notin {encryptionDisabled, encryptionIPsec, encryptionWireguard}
    THEN ErrEncryption
    ELSE NoError

\* the stage an error comes from
C6_StageOf(e) ==
    CASE e.msg = "validation check failed" -> "checks"
      [] e = ErrDots -> "dot"
      [] e = ErrName -> "pattern"
      [] e = ErrEncryption -> "encryption"
      [] e = NoError -> "encryption"
      [] OTHER -> "datapath"

\* C6: the stages run in the order detection, checks, cluster-name adoption,
\* datapath resolution, dot check, pattern check, encryption check; the call
\* returns the error of the earliest failing stage, that stage is the last
\* one that ran, and after a check failure ClusterName, DatapathMode and
\* KubeProxyReplacement (all parameters) are as on entry.
C6_SequentialShortCircuit ==
    /\ Len(stages) <= Len(C6_Order)
    /\ stages = SubSeq(C6_Order, 1, Len(stages))
    /\ Returned =>
           /\ err = C6_Expected
           /\ LastStage = C6_StageOf(err)
    /\ (Returned /\ IsValidationError) => params = entry

\* an AKS run returned a check failure while the lookup would also fail, the
\* name has a dot and an uppercase letter and the encryption mode is invalid
C6_Witness ==
    /\ Returned
    /\ IsValidationError
    /\ flavor.Kind = KindAKS
    /\ entry.DatapathMode = ""
    /\ byocniResult = "fail"
    /\ entry.ClusterName = <<"A", ".">>
    /\ entry.Encryption = "aes"
    /\ LastStage = "checks"

----------------------------------------------------------------------------
(* C7 *)

\* C7: on AKS with DatapathMode unset, when the checks passed and the BYOCNI
\* lookup returns an error, the call returns that error, DatapathMode is
\* still unset, KubeProxyReplacement is as on entry and neither the cluster
\* name gate nor the encryption gate has run, however invalid they are.
C7_LookupFailure ==
    (/\ Returned
     /\ flavor.Kind = KindAKS
     /\ entry.DatapathMode = ""
     /\ byocniResult \in {"fail", "canceled"}
     /\ ~IsValidationError) =>
        /\ err = LookupError(byocniResult)
        /\ params.DatapathMode = ""
        /\ params.KubeProxyReplacement = entry.KubeProxyReplacement
        /\ lookups = 1
        /\ LastStage = "datapath"
        /\ \A i \in 1..Len(stages) : stages[i] \notin {"dot", "pattern", "encryption"}

\* the lookup failed in a run whose cluster name and encryption mode are invalid
C7_Witness ==
    /\ Returned
    /\ flavor.Kind = KindAKS
    /\ entry.DatapathMode = ""
    /\ entry.KubeProxyReplacement = ""
    /\ byocniResult = "fail"
    /\ err = LookupError("fail")
    /\ ContainsDot(params.ClusterName)
    /\ params.Encryption = "aes"

----------------------------------------------------------------------------
(* C8 *)

\* every stage before the pattern check passed and the encryption mode is valid
GateReached ==
    /\ Returned
    /\ \E i \in 1..Len(stages) : stages[i] = "pattern"
    /\ params.Encryption \in {encryptionDisabled, encryptionIPsec, encryptionWireguard}

\* C8: when every other precondition holds, a cluster name that is exactly
\* one lowercase letter or one digit is accepted.
C8_SingleCharAccepted ==
    (/\ GateReached
     /\ Len(params.ClusterName) = 1
     /\ params.ClusterName[1] \in AlNum) => Succeeded

----------------------------------------------------------------------------
(* C9 *)

\* the pattern as the claim words it
C9_WellFormed(s) ==
    /\ s[1] \in Lower \cup Digit
    /\ s[Len(s)] \in Lower \cup Digit
    /\ \A i \in 2..(Len(s) - 1) : s[i] \in Lower \cup Digit \cup {"-"}

\* C9: when every other precondition holds, a dot-free cluster name of two
\* or more characters is accepted if and only if its first and last
\* characters are lowercase letters or digits and every character in
\* between is a lowercase letter, a digit or a hyphen; otherwise the call
\* returns the invalid-cluster-name error.
C9_PatternTwoOrMore ==
    (/\ GateReached
     /\ Len(params.ClusterName) >= 2
     /\ ~ContainsDot(params.ClusterName)) =>
        /\ C9_WellFormed(params.ClusterName) => Succeeded
        /\ ~C9_WellFormed(params.ClusterName) => err = ErrName

\* a name with a hyphen in the middle was accepted
C9_Witness ==
    /\ Succeeded
    /\ params.ClusterName = <<"a", "-", "0">>

----------------------------------------------------------------------------
(* C10 *)

\* the name has a dot at some position
C10_HasDot(s) == "." \in {s[i] : i \in 1..Len(s)}

\* C10: when the stages before the gate passed, a final cluster name with a
\* dot is rejected with the dots-not-allowed error, never with the pattern
\* error, whatever its other characters; a dot-free name is never rejected
\* with the dots-not-allowed error.
C10_DotPrecedence ==
    /\ (Returned /\ PastDatapath) =>
           (C10_HasDot(params.ClusterName) <=> err = ErrDots)
    /\ err = ErrDots => (Returned /\ C10_HasDot(params.ClusterName))

\* a name adopted from the detector with a dot after an uppercase letter
\* and an underscore was rejected for its dot
C10_Witness ==
    /\ Returned
    /\ err = ErrDots
    /\ entry.ClusterName = <<>>
    /\ detected.ClusterName = <<"A", "_", ".">>
    /\ params.ClusterName = <<"A", "-", ".">>

----------------------------------------------------------------------------
(* C11 *)

\* C11: when all earlier stages pass, the call succeeds if Encryption is
\* exactly "disabled", "ipsec" or "wireguard" and returns the
\* invalid-encryption-mode error for every other value, the empty string,
\* "IPsec" and "aes" included.
C11_EncryptionEnum ==
    (Returned /\ LastStage = "encryption") =>
        IF params.Encryption \in {"disabled", "ipsec", "wireguard"}
        THEN err = NoError
        ELSE err = ErrEncryption

\* the mixed-case spelling reached the encryption check and was rejected
C11_Witness ==
    /\ Returned
    /\ LastStage = "encryption"
    /\ params.Encryption = "IPsec"
    /\ err = ErrEncryption

----------------------------------------------------------------------------
(* C12 *)

\* C12: a second detectDatapathMode after a successful one, with the same
\* flavor, changes no parameter (DatapathMode and KubeProxyReplacement
\* included), does not invoke the BYOCNI lookup and returns success.
C12_Idempotent ==
    [][(~second.called /\ second.called') =>
          /\ params' = params
          /\ flavor' = flavor
          /\ lookups' = lookups
          /\ second.err' = NoError]_vars

\* the second call was made on an AKS installer whose first call resolved
\* the mode with one lookup
C12_Witness ==
    /\ second.called
    /\ flavor.Kind = KindAKS
    /\ entry.DatapathMode = ""
    /\ params.DatapathMode \in {DatapathAzure, DatapathAKSBYOCNI}
    /\ lookups = 1

----------------------------------------------------------------------------
(* C13 *)

\* the check whose failure the call returned
C13_FailingCheck == invoked[Len(invoked)]

\* the name occurs in the error
C13_Mentions(e, name) == name \in {e.msg, e.kind, e.cause}

----------------------------------------------------------------------------
(* C14 *)

\* a Check() or the lookup that was invoked returned the context's error
C14_CanceledCall ==
    \/ \E i \in 1..Len(invoked) : checkResult[invoked[i]] = "canceled"
    \/ lookups >= 1 /\ byocniResult = "canceled"

\* C14: when a Check() or the BYOCNI lookup returns a cancellation error,
\* the call returns a cancellation error, not a validation-check-failure
\* error, and never success.
C14_Cancellation ==
    (Returned /\ C14_CanceledCall) =>
        /\ err # NoError
        /\ err.msg = "context canceled"
        /\ ~IsValidationError

----------------------------------------------------------------------------
(* C15 *)

\* the kinds the registry has no entry for
C15_Unregistered == {KindEKS, KindGKE, KindUnknown, KindOther}

\* C15: for a kind absent from the registry no check is invoked, the check
\* stage produces no error whatever DisableChecks holds, and the call goes
\* on to the later stages.
C15_NoChecksForKind ==
    (pc # "start" /\ flavor.Kind \in C15_Unregistered) =>
        /\ invoked = <<>>
        /\ hinted = <<>>
        /\ ~IsValidationError
        /\ \A i \in 1..Len(stages) : stages[i] # "checks"
        /\ Returned => LastStage \in {"dot", "pattern", "encryption"}

\* an EKS run with a non-empty DisableChecks returned from the gate
C15_Witness ==
    /\ Returned
    /\ flavor.Kind = KindEKS
    /\ params.DisableChecks # <<>>
    /\ invoked = <<>>
    /\ LastStage = "encryption"

----------------------------------------------------------------------------
(* C16 *)

\* t is s with every underscore replaced by a hyphen and nothing else changed
C16_Normalized(s, t) ==
    /\ Len(t) = Len(s)
    /\ \A i \in 1..Len(s) : t[i] = IF s[i] = "_" THEN "-" ELSE s[i]

\* adoption has run
C16_Adopted == \E i \in 1..Len(stages) : stages[i] = "adopt"

\* C16: when ClusterName is unset on entry and the detector supplied a
\* non-empty name, ClusterName holds the detector's name with every
\* underscore replaced by a hyphen, and the gate judges that name: with an
\* uppercase letter or a dot in the detector's name the call is rejected.
C16_Adoption ==
    (entry.ClusterName = <<>> /\ detected.ClusterName # <<>> /\ C16_Adopted) =>
        /\ C16_Normalized(detected.ClusterName, params.ClusterName)
        /\ (Returned /\ PastDatapath) =>
              /\ (\E i \in 1..Len(detected.ClusterName) :
                      detected.ClusterName[i] = ".") => err = ErrDots
              /\ (\E i \in 1..Len(detected.ClusterName) :
                      detected.ClusterName[i] = "A") => err \in {ErrDots, ErrName}

\* a detector name with two underscores was adopted
C16_Witness ==
    /\ Returned
    /\ PastDatapath
    /\ entry.ClusterName = <<>>
    /\ detected.ClusterName = <<"a", "_", "_">>
    /\ params.ClusterName = <<"a", "-", "-">>

----------------------------------------------------------------------------
(* C17 *)

\* C17: K8sUninstaller.autodetect stores the detector's result as the
\* uninstaller's flavor and does nothing else: no check, no datapath
\* resolution, no lookup, no parameter change, no error, for every kind.
C17_UninstallAutodetect ==
    [][(~uninstaller.called /\ uninstaller.called') =>
          /\ uninstaller.flavor' = detected
          /\ UNCHANGED <<params, invoked, lookups, err, stages, hinted,
                         second, pc, flavor, detected>>]_vars

\* the uninstaller detected an unknown kind
C17_Witness ==
    /\ uninstaller.called
    /\ uninstaller.flavor.Kind = KindUnknown
    /\ uninstaller.flavor = detected

----------------------------------------------------------------------------
(* C18 *)

\* C18: when DatapathMode is set on entry, datapath resolution returns
\* success without the BYOCNI lookup, so an AKS run cannot fail with a
\* lookup error, and KubeProxyReplacement is as on entry: unset on kind and
\* AKS when the user did not set it.
C18_UserModeNoInference ==
    entry.DatapathMode # "" =>
        /\ lookups = 0
        /\ params.DatapathMode = entry.DatapathMode
        /\ params.KubeProxyReplacement = entry.KubeProxyReplacement
        /\ err.msg \notin {LookupError("fail").msg, LookupError("canceled").msg}
        /\ ~(Returned /\ LastStage = "datapath")
        /\ second.called => second.err = NoError

\* an AKS run with a user mode got past resolution although the lookup
\* would have failed, and kube-proxy-replacement is still unset
C18_Witness ==
    /\ Returned
    /\ PastDatapath
    /\ flavor.Kind = KindAKS
    /\ entry.DatapathMode = "vxlan"
    /\ byocniResult = "fail"
    /\ params.KubeProxyReplacement = ""

----------------------------------------------------------------------------
(* C19 *)

\* the number of times a check was invoked
C19_Count(c) == Cardinality({i \in 1..Len(invoked) : invoked[i] = c})

\* the cluster-name pattern
C19_Pattern(s) ==
    /\ Len(s) >= 1
    /\ s[1] \in Lower \cup Digit
    /\ s[Len(s)] \in Lower \cup Digit
    /\ \A i \in 1..Len(s) : s[i] \in Lower \cup Digit \cup {"-"}

\* C19: whenever the call returns success, DatapathMode is non-empty,
\* ClusterName is non-empty, dot-free and matches the pattern, Encryption is
\* in the closed set, and every check of the detected flavor that
\* DisableChecks does not name was invoked exactly once and returned no
\* error.
C19_AcceptedResolved ==
    Succeeded =>
        /\ params.DatapathMode # ""
        /\ params.ClusterName # <<>>
        /\ \A i \in 1..Len(params.ClusterName) : params.ClusterName[i] # "."
        /\ C19_Pattern(params.ClusterName)
        /\ params.Encryption \in {"disabled", "ipsec", "wireguard"}
        /\ \A i \in 1..Len(validationChecks[flavor.Kind]) :
              LET c == validationChecks[flavor.Kind][i] IN
              Name(c) \notin DisabledNames =>
                  C19_Count(c) = 1 /\ checkResult[c] = "ok"

\* a kind run with two enabled checks was accepted
C19_Witness ==
    /\ Succeeded
    /\ flavor.Kind = KindKind
    /\ invoked = <<kindVersionValidation, stubValidation>>
    /\ entry.ClusterName = <<>>
    /\ entry.DatapathMode = ""

----------------------------------------------------------------------------
(* C20 *)

\* C20: when ClusterName is unset on entry and the detector supplied an
\* empty name, no default is filled in and, if the earlier stages pass, the
\* call returns the invalid-cluster-name error with ClusterName still empty,
\* for every flavor.
C20_EmptyNameRejected ==
    (entry.ClusterName = <<>> /\ detected.ClusterName = <<>>) =>
        /\ params.ClusterName = <<>>
        /\ (Returned /\ PastDatapath) => err = ErrName

\* an AKS run without any cluster name was rejected by the pattern check
C20_Witness ==
    /\ Returned
    /\ flavor.Kind = KindAKS
    /\ entry.ClusterName = <<>>
    /\ detected.ClusterName = <<>>
    /\ params.ClusterName = <<>>
    /\ err = ErrName

====
